---- MODULE Spec2Model ----
(***************************************************************************)
(* A model of the alert enrichment run of siem-ai-assistant:               *)
(*   main()                       src/main.py                              *)
(*   KibanaConnector              src/connectors/kibana.py                 *)
(*   ElasticsearchConnector       src/connectors/elasticsearch.py          *)
(*   AISecurityAnalyst            src/connectors/ai.py                     *)
(* Every external call (HTTP request, search, scroll, clear_scroll, chat   *)
(* completion) is one step that either returns or raises.  The calls and   *)
(* the printed lines are recorded, in program order, in trace.             *)
(***************************************************************************)
EXTENDS Integers, Sequences, FiniteSets, TLC

(* ----------------------------- bounds ---------------------------------- *)
\* largest number of alerts the store holds
MaxAlerts == 3
\* largest page size of the search (the program asks for size=1000)
MaxPage == 2
\* the rule endpoint holds up to MaxRulePages full pages (plus a remainder)
MaxRulePages == 1

(* ------------------------ program constants ---------------------------- *)
\* kibana.py:55  per_page = 100
per_page == 100
\* main.py:24  model="gpt-4o"
model == "gpt-4o"

(* --------------------------- environment ------------------------------- *)
AlertIds == 1..MaxAlerts
\* the numbers of rules the endpoint may hold: around every page boundary
RuleCounts == {k * per_page + d : k \in 0..MaxRulePages, d \in {0, 1}}
\* str(e) of the exceptions the external calls raise
RuleErrors == {"rules: HTTP 500"}
SearchErrors == {"search: connection refused"}
ScrollErrors == {"scroll: context lost"}
ClearErrors == {"clear_scroll: not found"}
AnalyzeErrors == {"analysis: rate limited"}
NoteErrors == {"note: HTTP 403"}
\* message.content of an answer without narrative (empty, or None)
EmptyContent == ""
\* narratives the analysis service may answer with
Contents == {"low risk", EmptyContent}
\* the scroll id the store hands out with the initial search
ScrollId == "scroll-1"

Min(a, b) == IF a < b THEN a ELSE b

\* sequences over S without repetition, of length at most n
RECURSIVE InjSeqs(_, _)
InjSeqs(S, n) ==
  IF n = 0 THEN {<< >>}
  ELSE LET shorter == InjSeqs(S, n - 1)
           longest == {q \in shorter \X S :
                         /\ Len(q[1]) = n - 1
                         /\ \A i \in DOMAIN q[1] : q[1][i] # q[2]}
       IN shorter \cup {Append(q[1], q[2]) : q \in longest}

\* the hit the store returns for the k-th most recent of n alerts
Hit(id, k, n) == [_id |-> id, _source |-> [timestamp |-> n - k]]

\* the matching alerts of the store, most recent first (sort @timestamp desc)
StoreOf(ids) == [k \in 1..Len(ids) |-> Hit(ids[k], k, Len(ids))]

\* one trace entry: an external call (res: "ok" or the message of the
\* exception it raised; n: records in its response) or a printed line
Event(op, id, arg, res, n) == [op |-> op, id |-> id, arg |-> arg, res |-> res, n |-> n]

(* ------------------- values of the alert documents --------------------- *)
\* a string, a mapping (dict) and a list of an alert document
Str(x) == [kind |-> "str", v |-> x]
Map(f) == [kind |-> "map", v |-> f]
List(q) == [kind |-> "list", v |-> q]
\* ai.py:35-46  the default {} of the lookups of subtrees
EmptyMap == Map(<< >>)
\* ai.py:73  the default [] of the technique list
EmptyList == List(<< >>)
\* ai.py:51-70  the default 'N/A' of the lookups of fields
NA == Str("N/A")
\* the outcome of an expression that raised
Raise == [kind |-> "raise", v |-> "AttributeError"]
\* in the description of a document: the key is not present
Absent == [kind |-> "absent", v |-> ""]
\* the mapping with the keys of f that are present
MkMap(f) == Map([k \in {x \in DOMAIN f : f[x].kind # "absent"} |-> f[k]])

\* Python None, as a credential
None == "<None>"
\* truth value of a credential: None and the empty string are false
Truthy(x) == x \notin {None, ""}
\* main.py:9-21  the connectors of main: no API key, username and password set
MainCreds == [api_key |-> None, username |-> "elastic", password |-> "secret"]
\* no prompt built yet
NoPrompt == [state |-> "none", fields |-> << >>]

VARIABLES
  unit,       \* the part of the program at work: "run" (main), or one unit
  raw,        \* _create_signal_prompt: the signal it is given
  prompt,     \* _create_signal_prompt: what it returned, or that it raised
  creds,      \* __init__ of a connector: api_key, username, password
  conn,       \* the connector: "none" before __init__, "ready", "error"
  pc,         \* position of main(): the call it is about to make
  exit,       \* exit status of the process: "none" while running, "zero", "nonzero"
  ruleCount,  \* number of rules the endpoint holds
  store,      \* hits matching the query, in the order the store serves them
  pageSize,   \* size of the search: hits per response
  cursor,     \* hits the open scroll context has served so far
  ctxOpen,    \* whether the store holds an open scroll context
  all_rules,  \* get_all_detection_rules: all_rules
  page,       \* get_all_detection_rules: page
  scroll_id,  \* get_signals: scroll_id
  resp,       \* get_signals: resp['hits']['hits'] of the last response
  results,    \* get_signals: results
  signals,    \* main: signals
  idx,        \* main: position of the for loop in signals
  analysis,   \* main: analysis (kept across iterations, as a Python local)
  trace       \* external calls and printed lines, in program order

vars == <<unit, raw, prompt, creds, conn, pc, exit, ruleCount, store, pageSize, cursor, ctxOpen, all_rules,
          page, scroll_id, resp, results, signals, idx, analysis, trace>>

\* the units outside the run of main
unitVars == <<unit, raw, prompt, creds, conn>>
\* what no step of the run changes
envVars == <<ruleCount, store, pageSize, unitVars>>
rulesVars == <<all_rules, page>>
fetchVars == <<cursor, ctxOpen, scroll_id, resp, results>>
loopVars == <<signals, idx, analysis>>

NoAnalysis == [signal_id |-> 0, analysis |-> [request |-> 0, content |-> ""],
               model_used |-> "", timestamp |-> 0]

Init ==
  /\ unit = "run"
  /\ raw = EmptyMap
  /\ prompt = NoPrompt
  /\ creds = MainCreds
  /\ conn = "ready"
  /\ pc = "get_rules"
  /\ exit = "none"
  /\ ruleCount \in RuleCounts
  /\ store \in {StoreOf(ids) : ids \in InjSeqs(AlertIds, MaxAlerts)}
  /\ pageSize \in 1..MaxPage
  /\ cursor = 0
  /\ ctxOpen = FALSE
  /\ all_rules = << >>
  /\ page = 1
  /\ scroll_id = ""
  /\ resp = << >>
  /\ results = << >>
  /\ signals = << >>
  /\ idx = 1
  /\ analysis = NoAnalysis
  /\ trace = << >>

\* an exception that nothing catches leaves main(): the run is aborted and
\* the interpreter exits with a non-zero status
Abort(ev) ==
  /\ pc' = "aborted"
  /\ exit' = "nonzero"
  /\ trace' = Append(trace, ev)

(* ------------------- KibanaConnector.get_all_detection_rules ----------- *)
\* data['data'] of the response to page p with pp rules per page
RulesPage(p, pp) ==
  LET first == (p - 1) * pp + 1
      last == Min(p * pp, ruleCount)
  IN [k \in 1..(IF last >= first THEN last - first + 1 ELSE 0) |-> first + k - 1]

\* LastRulesPage ending the listing only at an empty page
LastRulesPageEmpty(rules) == Len(rules) = 0

\* kibana.py:78  if len(rules) < per_page: break
LastRulesPage(rules) == Len(rules) < per_page

\* main.py:28  the call is not guarded: an exception of the listing leaves main()
OnRulesError(m) ==
  /\ Abort(Event("get_rules", page, per_page, m, 0))
  /\ UNCHANGED <<envVars, rulesVars, fetchVars, loopVars>>

\* requests.get or raise_for_status raises on the request for the current page
RulesGetFails ==
  /\ pc = "get_rules"
  /\ \E m \in RuleErrors : OnRulesError(m)

\* the request for the current page returns; the loop goes on to the next
\* page, or the listing returns and main prints the number of rules
RulesGetPage ==
  /\ pc = "get_rules"
  /\ LET rules == RulesPage(page, per_page)
         call == Event("get_rules", page, per_page, "ok", Len(rules))
     IN /\ all_rules' = all_rules \o rules
        /\ IF LastRulesPage(rules)
           THEN /\ page' = page
                /\ pc' = "search"
                /\ trace' = trace \o
                     <<call, Event("print_rules", 0, "", "", Len(all_rules'))>>
           ELSE /\ page' = page + 1
                /\ pc' = "get_rules"
                /\ trace' = Append(trace, call)
  /\ UNCHANGED <<exit, envVars, fetchVars, loopVars>>

(* ------------------- ElasticsearchConnector.get_signals ---------------- *)
\* the hits of the next response of the store: the next pageSize hits, fewer
\* when fewer are left, none when the matching alerts are exhausted
NextHits == SubSeq(store, cursor + 1, Min(cursor + pageSize, Len(store)))

\* elasticsearch.py:76-79, 87-90  {'id': hit['_id'], 'source': hit['_source']}
ToSignal(hit) == [id |-> hit._id, source |-> hit._source]

\* Extend with an assignment in place of extend: the page replaces the results
ExtendReplaces(rs, hits) == [k \in 1..Len(hits) |-> ToSignal(hits[k])]

\* elasticsearch.py:76, 87  results.extend([... for hit in resp['hits']['hits']])
Extend(rs, hits) == rs \o [k \in 1..Len(hits) |-> ToSignal(hits[k])]

\* MoreHits stopping at the first page shorter than the size asked for
MoreHitsFullPage(hits) == Len(hits) >= pageSize

\* elasticsearch.py:82  while len(resp['hits']['hits'])
MoreHits(hits) == Len(hits) # 0

\* LoopHead ending the pagination at the first page shorter than the size
LoopHeadFullPage(hits) == IF Len(hits) >= pageSize THEN "scroll" ELSE "clear_scroll"

\* where get_signals goes after a response: another scroll, or the release
LoopHead(hits) == IF MoreHits(hits) THEN "scroll" ELSE "clear_scroll"

\* main.py:35  the for loop takes the next signal, or ends and main returns
LoopAt(i, sigs) == IF i <= Len(sigs) THEN "analyze" ELSE "done"

\* the exit status once main is at position p
ExitAt(p) == IF p = "done" THEN "zero" ELSE "none"

\* OnFetchError with the error swallowed: main goes on with the results
\* retrieved before the failure
OnFetchErrorPartial(ev) ==
  /\ trace' = Append(trace, ev)
  /\ signals' = results
  /\ idx' = 1
  /\ pc' = LoopAt(1, results)
  /\ exit' = ExitAt(pc')
  /\ UNCHANGED <<envVars, rulesVars, fetchVars, analysis>>

\* main.py:31  the call is not guarded, and get_signals has no handler of its
\* own: an exception of search, scroll or clear_scroll leaves get_signals at
\* the call that raised, and then main()
OnFetchError(ev) ==
  /\ Abort(ev)
  /\ UNCHANGED <<envVars, rulesVars, fetchVars, loopVars>>

\* elasticsearch.py:64-70  the initial search raises
SearchFails ==
  /\ pc = "search"
  /\ \E m \in SearchErrors : OnFetchError(Event("search", 0, pageSize, m, 0))

\* elasticsearch.py:64-79  the initial search returns the first page and the
\* scroll id of the context the store opened
Search ==
  /\ pc = "search"
  /\ resp' = NextHits
  /\ cursor' = cursor + Len(NextHits)
  /\ ctxOpen' = TRUE
  /\ scroll_id' = ScrollId
  /\ results' = Extend(<< >>, NextHits)
  /\ pc' = LoopHead(NextHits)
  /\ trace' = Append(trace, Event("search", 0, pageSize, "ok", Len(NextHits)))
  /\ UNCHANGED <<exit, envVars, rulesVars, loopVars>>

\* the scroll id the store returns with the response to a scroll call: it
\* may differ from the one the search returned
RenewedScrollId == "scroll-2"

\* ScrollIdAfter adopting the scroll id of the latest response
ScrollIdAdopted(current, returned) == returned

\* elasticsearch.py:83-90  the _scroll_id of the response to a scroll call is
\* not read: scroll_id keeps the value assigned at elasticsearch.py:73
ScrollIdAfter(current, returned) == current

\* elasticsearch.py:83-86  a scroll call raises
ScrollFails ==
  /\ pc = "scroll"
  /\ \E m \in ScrollErrors : OnFetchError(Event("scroll", 0, scroll_id, m, 0))

\* elasticsearch.py:82-90  a scroll call returns the next page
Scroll ==
  /\ pc = "scroll"
  /\ resp' = NextHits
  /\ cursor' = cursor + Len(NextHits)
  /\ results' = Extend(results, NextHits)
  /\ pc' = LoopHead(NextHits)
  /\ scroll_id' = ScrollIdAfter(scroll_id, RenewedScrollId)
  /\ trace' = Append(trace, Event("scroll", 0, scroll_id, "ok", Len(NextHits)))
  /\ UNCHANGED <<exit, envVars, rulesVars, ctxOpen, loopVars>>

\* elasticsearch.py:93  clear_scroll raises
ClearScrollFails ==
  /\ pc = "clear_scroll"
  /\ \E m \in ClearErrors : OnFetchError(Event("clear_scroll", 0, scroll_id, m, 0))

\* ClearScroll without the release: get_signals returns, the context stays
ClearScrollSkipped ==
  /\ pc = "clear_scroll"
  /\ signals' = results
  /\ idx' = 1
  /\ pc' = LoopAt(1, results)
  /\ exit' = ExitAt(pc')
  /\ trace' = Append(trace, Event("print_signals", 0, "", "", Len(results)))
  /\ UNCHANGED <<envVars, rulesVars, fetchVars, analysis>>

\* ClearScroll with main printing the size of the last page as the number
\* of signals
ClearScrollMiscount ==
  /\ pc = "clear_scroll"
  /\ ctxOpen' = FALSE
  /\ signals' = results
  /\ idx' = 1
  /\ pc' = LoopAt(1, results)
  /\ exit' = ExitAt(pc')
  /\ trace' = trace \o <<Event("clear_scroll", 0, scroll_id, "ok", 0),
                         Event("print_signals", 0, "", "", Len(resp))>>
  /\ UNCHANGED <<envVars, rulesVars, cursor, scroll_id, resp, results, analysis>>

\* elasticsearch.py:93-95, main.py:31-35  clear_scroll releases the context,
\* get_signals returns results, main prints their number and enters the loop
ClearScroll ==
  /\ pc = "clear_scroll"
  /\ ctxOpen' = FALSE
  /\ signals' = results
  /\ idx' = 1
  /\ pc' = LoopAt(1, results)
  /\ exit' = ExitAt(pc')
  /\ trace' = trace \o <<Event("clear_scroll", 0, scroll_id, "ok", 0),
                         Event("print_signals", 0, "", "", Len(results))>>
  /\ UNCHANGED <<envVars, rulesVars, cursor, scroll_id, resp, results, analysis>>

(* ------------------- AISecurityAnalyst.analyze_signal ------------------ *)
\* response.choices[0].message.content of the completion the service returns
\* for the prompt built from signal: the narrative c, answering that request
Response(signal, c) == [request |-> signal.id, content |-> c]

\* ai.py:123-128  the dictionary analyze_signal returns
AnalysisResult(signal, response) ==
  [signal_id |-> signal.id,
   analysis |-> response,
   model_used |-> model,
   timestamp |-> signal.source.timestamp]

(* ------------------------------- main ---------------------------------- *)
\* SignalAt iterating over the signals from the last to the first
SignalAtReversed(i) == signals[Len(signals) + 1 - i]

\* main.py:35  for signal in signals: the signal of the i-th iteration
SignalAt(i) == signals[i]

\* main.py:41-49  the note text: the analysis, the signal id, the timestamp
\* of the analysis and the model used
NoteText(a, signal) ==
  [analysis |-> a.analysis,
   signal_id |-> signal.id,
   timestamp |-> a.timestamp,
   model_used |-> a.model_used]

\* NoteCall keyed by the id of the first signal instead of the current one
NoteCallFirstId(a, signal, res) == Event("add_note", signals[1].id, NoteText(a, signal), res, 0)

\* kibana.py:139-145, main.py:51  add_note(event_id=signal['id'], note_text=...)
NoteCall(a, signal, res) == Event("add_note", signal.id, NoteText(a, signal), res, 0)

\* NextIteration stepping over every other signal
NextIterationSkips ==
  /\ idx' = idx + 2
  /\ pc' = LoopAt(idx + 2, signals)
  /\ exit' = ExitAt(pc')

\* main.py:35  the loop moves to the next signal
NextIteration ==
  /\ idx' = idx + 1
  /\ pc' = LoopAt(idx + 1, signals)
  /\ exit' = ExitAt(pc')

\* OnError retrying the signal after its error is reported
OnErrorRetry(ev, m) ==
  /\ trace' = trace \o <<ev, Event("print_err", SignalAt(idx).id, m, "", 0)>>
  /\ pc' = "analyze"
  /\ UNCHANGED <<exit, envVars, rulesVars, fetchVars, loopVars>>

\* OnError without the try/except of main.py:36-55: the error leaves main()
OnErrorPropagates(ev, m) ==
  /\ Abort(ev)
  /\ UNCHANGED <<envVars, rulesVars, fetchVars, loopVars>>

\* OnError with an except clause that reports nothing (except: pass)
OnErrorSilent(ev, m) ==
  /\ trace' = Append(trace, ev)
  /\ NextIteration
  /\ UNCHANGED <<envVars, rulesVars, fetchVars, signals, analysis>>

\* main.py:54-55  except Exception as e: the error of the call ev is printed
\* with the id of the signal, and the loop goes on
OnError(ev, m) ==
  /\ trace' = trace \o <<ev, Event("print_err", SignalAt(idx).id, m, "", 0)>>
  /\ NextIteration
  /\ UNCHANGED <<envVars, rulesVars, fetchVars, signals, analysis>>

\* main.py:38, ai.py:105-121  analyze_signal raises
AnalyzeFails ==
  /\ pc = "analyze"
  /\ \E m \in AnalyzeErrors :
       OnError(Event("analyze", SignalAt(idx).id, SignalAt(idx), m, 0), m)

\* main.py:38, ai.py:95-128  analyze_signal returns the analysis of the signal
Analyze ==
  /\ pc = "analyze"
  /\ \E c \in Contents :
       analysis' = AnalysisResult(SignalAt(idx), Response(SignalAt(idx), c))
  /\ trace' = Append(trace, Event("analyze", SignalAt(idx).id, SignalAt(idx), "ok", 0))
  /\ pc' = "add_note"
  /\ UNCHANGED <<exit, envVars, rulesVars, fetchVars, signals, idx>>

\* main.py:51, kibana.py:147-154  add_note raises
AddNoteFails ==
  /\ pc = "add_note"
  /\ \E m \in NoteErrors : OnError(NoteCall(analysis, SignalAt(idx), m), m)

\* main.py:51-52  add_note returns and the signal is reported as processed
AddNote ==
  /\ pc = "add_note"
  /\ trace' = trace \o <<NoteCall(analysis, SignalAt(idx), "ok"),
                         Event("print_ok", SignalAt(idx).id, "", "", 0)>>
  /\ NextIteration
  /\ UNCHANGED <<envVars, rulesVars, fetchVars, signals, analysis>>

Next ==
  \/ RulesGetFails
  \/ RulesGetPage
  \/ SearchFails
  \/ Search
  \/ ScrollFails
  \/ Scroll
  \/ ClearScrollFails
  \/ ClearScroll
  \/ AnalyzeFails
  \/ Analyze
  \/ AddNoteFails
  \/ AddNote

Spec == Init /\ [][Next]_vars

\* every external call returns or raises: a step that is possible is taken
SpecFair == Spec /\ WF_vars(Next)

(* ------------------------------ types ---------------------------------- *)
TypeOK ==
  /\ unit \in {"run", "prompt", "kibana", "elasticsearch"}
  /\ prompt.state \in {"none", "built", "raised"}
  /\ conn \in {"none", "ready", "error"}
  /\ pc \in {"unit", "get_rules", "search", "scroll", "clear_scroll", "analyze",
             "add_note", "done", "aborted"}
  /\ exit \in {"none", "zero", "nonzero"}
  /\ cursor \in 0..Len(store)
  /\ idx \in 1..(Len(signals) + 1)
  /\ ctxOpen \in BOOLEAN

(* ------------------- AISecurityAnalyst._create_signal_prompt ----------- *)
\* d.get(key, default): the value of the key, the default when the mapping
\* has no such key; AttributeError when d is not a mapping (a string, a
\* list and None have no get); an error raised earlier propagates
Get(d, key, default) ==
  IF d.kind # "map" THEN Raise
  ELSE IF key \in DOMAIN d.v THEN d.v[key] ELSE default

\* ai.py:34-83  the fields of the prompt, in the order they are rendered
PromptFields(signal) ==
  LET source == Get(signal, "source", EmptyMap)
      process == Get(source, "process", EmptyMap)
      parent_process == Get(process, "parent", EmptyMap)
      kibana_alert == Get(Get(source, "kibana", EmptyMap), "alert", EmptyMap)
      rule_params == Get(Get(kibana_alert, "rule", EmptyMap), "parameters", EmptyMap)
      host == Get(source, "host", EmptyMap)
      user == Get(source, "user", EmptyMap)
  IN <<Get(Get(kibana_alert, "rule", EmptyMap), "name", NA),
       Get(rule_params, "severity", NA),
       Get(rule_params, "risk_score", NA),
       Get(rule_params, "description", NA),
       Get(Get(signal, "source", EmptyMap), "timestamp", NA),
       Get(process, "name", NA),
       Get(process, "command_line", NA),
       Get(process, "working_directory", NA),
       Get(parent_process, "name", NA),
       Get(parent_process, "command_line", NA),
       Get(user, "name", NA),
       Get(user, "domain", NA),
       Get(host, "hostname", NA),
       Get(Get(host, "os", EmptyMap), "name", NA),
       Get(rule_params, "threat", EmptyList)>>

\* ai.py:27-83  _create_signal_prompt returns the prompt, or raises when one
\* of its lookups raises
CreateSignalPrompt(signal) ==
  LET fields == PromptFields(signal)
  IN IF \E i \in DOMAIN fields : fields[i].kind = "raise"
     THEN [state |-> "raised", fields |-> << >>]
     ELSE [state |-> "built", fields |-> fields]

\* shapes of the subtrees of an alert document: not present, present with a
\* value that is no mapping, or a mapping whose keys are present or not
ParentShapes ==
  {Absent, Str("x")} \cup {MkMap([name |-> n]) : n \in {Absent, Str("explorer.exe")}}
ProcessShapes ==
  {Absent, Str("x")} \cup
  {MkMap([name |-> n, parent |-> q]) : n \in {Absent, Str("cmd.exe")}, q \in ParentShapes}
ParameterShapes ==
  {Absent, Str("x")} \cup
  {MkMap([severity |-> n, threat |-> q]) :
     n \in {Absent, Str("high")}, q \in {Absent, List(<<"T1059">>)}}
RuleShapes ==
  {Absent, Str("x")} \cup
  {MkMap([name |-> n, parameters |-> q]) : n \in {Absent, Str("rule")}, q \in ParameterShapes}
AlertShapes == {Absent, Str("x")} \cup {MkMap([rule |-> q]) : q \in RuleShapes}
KibanaShapes == {Absent, Str("x")} \cup {MkMap([alert |-> q]) : q \in AlertShapes}
OsShapes == {Absent, Str("x")} \cup {MkMap([name |-> n]) : n \in {Absent, Str("Windows")}}
HostShapes ==
  {Absent, Str("x")} \cup
  {MkMap([hostname |-> n, os |-> q]) : n \in {Absent, Str("ws-1")}, q \in OsShapes}
UserShapes == {Absent, Str("x")} \cup {MkMap([name |-> n]) : n \in {Absent, Str("alice")}}

\* the signals given to _create_signal_prompt: an id and a source, as
\* get_signals builds them (elasticsearch.py:76-79)
RawSignals ==
  {MkMap([id |-> Str("a1"),
          source |-> MkMap([process |-> p, kibana |-> k, host |-> h, user |-> u])]) :
     p \in ProcessShapes, k \in KibanaShapes, h \in HostShapes, u \in UserShapes}

\* ai.py:105  the prompt of the signal is built
BuildPrompt ==
  /\ unit = "prompt"
  /\ prompt.state = "none"
  /\ prompt' = CreateSignalPrompt(raw)
  /\ UNCHANGED <<unit, raw, creds, conn, pc, exit, ruleCount, store, pageSize,
                 rulesVars, fetchVars, loopVars, trace>>

(* ------------------- the constructors of the connectors ---------------- *)
\* values of a credential: not given, empty, given
CredValues == {None, "", "secret"}
CredSets == [api_key : CredValues, username : CredValues, password : CredValues]

\* ElasticsearchInit with `username or password` in place of `and`
ElasticsearchInitEither(c) ==
  IF Truthy(c.api_key) THEN "ready"
  ELSE IF Truthy(c.username) \/ Truthy(c.password) THEN "ready"
  ELSE "error"

\* elasticsearch.py:24-37  ElasticsearchConnector.__init__: the client is
\* created (no request is sent) or ValueError is raised
ElasticsearchInit(c) ==
  IF Truthy(c.api_key) THEN "ready"
  ELSE IF Truthy(c.username) /\ Truthy(c.password) THEN "ready"
  ELSE "error"

\* kibana.py:33-47  KibanaConnector.__init__: the headers or the auth pair
\* are set (no request is sent) or ValueError is raised
KibanaInit(c) ==
  IF Truthy(c.api_key) THEN "ready"
  ELSE IF Truthy(c.username) /\ Truthy(c.password) THEN "ready"
  ELSE "error"

\* main.py:16-21  ElasticsearchConnector(...) is constructed
ConstructElasticsearch ==
  /\ unit = "elasticsearch"
  /\ conn = "none"
  /\ conn' = ElasticsearchInit(creds)
  /\ UNCHANGED <<unit, raw, prompt, creds, pc, exit, ruleCount, store, pageSize,
                 rulesVars, fetchVars, loopVars, trace>>

\* main.py:9-15  KibanaConnector(...) is constructed
ConstructKibana ==
  /\ unit = "kibana"
  /\ conn = "none"
  /\ conn' = KibanaInit(creds)
  /\ UNCHANGED <<unit, raw, prompt, creds, pc, exit, ruleCount, store, pageSize,
                 rulesVars, fetchVars, loopVars, trace>>

\* kibana.py:63-69, elasticsearch.py:64-70  the first request a constructed
\* connector sends
ConnectorCall ==
  /\ unit \in {"kibana", "elasticsearch"}
  /\ conn = "ready"
  /\ trace = << >>
  /\ trace' = <<Event(IF unit = "kibana" THEN "get_rules" ELSE "search", 1, "", "ok", 0)>>
  /\ UNCHANGED <<unit, raw, prompt, creds, conn, pc, exit, ruleCount, store,
                 pageSize, rulesVars, fetchVars, loopVars>>

(* ------------------- the units on their own ---------------------------- *)
\* one unit at work on one input: the prompt builder on a signal, or the
\* constructor of a connector on credentials; main is not running
InitUnits ==
  /\ \/ /\ unit = "prompt"
        /\ raw \in RawSignals
        /\ creds = MainCreds
        /\ conn = "ready"
     \/ /\ unit \in {"kibana", "elasticsearch"}
        /\ raw = EmptyMap
        /\ creds \in CredSets
        /\ conn = "none"
  /\ prompt = NoPrompt
  /\ pc = "unit"
  /\ exit = "none"
  /\ ruleCount = 0
  /\ store = << >>
  /\ pageSize = 1
  /\ cursor = 0
  /\ ctxOpen = FALSE
  /\ all_rules = << >>
  /\ page = 1
  /\ scroll_id = ""
  /\ resp = << >>
  /\ results = << >>
  /\ signals = << >>
  /\ idx = 1
  /\ analysis = NoAnalysis
  /\ trace = << >>

NextUnits ==
  \/ BuildPrompt
  \/ ConstructKibana
  \/ ConstructElasticsearch
  \/ ConnectorCall

SpecUnits == InitUnits /\ [][NextUnits]_vars

(* ------------------------ reading the trace ---------------------------- *)
\* positions of the entries of operation op
At(op) == {i \in DOMAIN trace : trace[i].op = op}
\* positions of the entries of operation op about the alert id
AtId(op, id) == {i \in At(op) : trace[i].id = id}
\* the entry is a call that raised
Raised(e) == e.res \notin {"ok", ""}
\* the entry is a response of the store carrying a page of hits
IsPage(e) == e.op \in {"search", "scroll"} /\ e.res = "ok"
\* the entry is a call or a report of the per-alert loop
IsAlertEntry(e) == e.op \in {"analyze", "add_note", "print_ok", "print_err"}
\* get_signals has returned to main
Fetched == pc \in {"analyze", "add_note", "done"}
\* ids of the alerts for which analyze_signal or add_note raised
FailedIds == {trace[i].id : i \in {j \in At("analyze") \cup At("add_note") : Raised(trace[j])}}
\* the alert id has been annotated: add_note returned for it
Annotated(id) == \E i \in AtId("add_note", id) : trace[i].res = "ok"
\* analyze_signal returned for the alert id
Analyzed(id) == \E i \in AtId("analyze", id) : trace[i].res = "ok"
Ceil(t, p) == (t + p - 1) \div p

(* ------------------------------ claims --------------------------------- *)
\* C1  Isolate-and-continue: an error raised by analyze_signal or add_note
\* for one alert never aborts the run; when main returns, its exit status is
\* zero, analyze_signal has been called for every fetched alert and add_note
\* for every alert whose analysis returned; and when exactly one alert
\* failed, every other alert is annotated and reported as processed, and the
\* one failure report carries the id of the failed alert and a non-empty
\* reason.
IsolateAndContinue ==
  /\ (At("analyze") # {}) => (pc # "aborted" /\ exit # "nonzero")
  /\ pc = "done" =>
       /\ exit = "zero"
       /\ \A k \in DOMAIN signals :
            /\ AtId("analyze", signals[k].id) # {}
            /\ Analyzed(signals[k].id) => AtId("add_note", signals[k].id) # {}
       /\ Cardinality(FailedIds) = 1 =>
            /\ \A k \in DOMAIN signals :
                 signals[k].id \notin FailedIds =>
                   /\ Annotated(signals[k].id)
                   /\ AtId("print_ok", signals[k].id) # {}
            /\ Cardinality(At("print_err")) = 1
            /\ \A i \in At("print_err") :
                 trace[i].id \in FailedIds /\ trace[i].arg # ""

\* C1 witness: three alerts fetched, the second one failed, the run is done
IsolateAndContinueWitness ==
  /\ pc = "done"
  /\ Len(signals) = 3
  /\ FailedIds = {signals[2].id}
  /\ Annotated(signals[1].id)
  /\ Annotated(signals[3].id)

\* C2  Continuation-context release on every exit path: once the initial
\* search has returned a scroll id and get_signals has exited (returned or
\* raised), clear_scroll has been called exactly once.
ReleaseOnEveryExit ==
  ((\E i \in At("search") : trace[i].res = "ok") /\ pc \notin {"scroll", "clear_scroll"})
    => Cardinality(At("clear_scroll")) = 1

\* C3  Pagination completeness: when get_signals has returned, the signals
\* are the records of the store, each exactly once, in the order served.
PaginationCompleteness ==
  Fetched =>
    /\ Len(signals) = Len(store)
    /\ \A k \in DOMAIN signals :
         /\ signals[k].id = store[k]._id
         /\ signals[k].source = store[k]._source

\* C3 witness: three records served in pages of two have been returned
PaginationCompletenessWitness ==
  /\ Fetched
  /\ Len(store) = 3
  /\ pageSize = 2
  /\ Len(signals) = 3

\* C4  Continuation call count: when get_signals has returned, it has made
\* exactly ceil(T/P) scroll calls for T records served in pages of P.
ContinuationCallCount ==
  Fetched => Cardinality(At("scroll")) = Ceil(Len(store), pageSize)

\* C4 witness: T an exact multiple of P, one scroll call (the empty page)
ContinuationCallCountWitness ==
  /\ Fetched
  /\ Len(store) = 2
  /\ pageSize = 2
  /\ Cardinality(At("scroll")) = 1

\* C5 (as stated)  End-of-results signal: no scroll call is made after a page
\* with fewer hits than the size asked for has been returned.
NoScrollAfterShortPage ==
  \A i, j \in DOMAIN trace :
    (i < j /\ IsPage(trace[i]) /\ trace[i].n < pageSize) => trace[j].op # "scroll"

\* C5 (amended)  get_signals resumes with the scroll id after every page
\* that holds at least one hit, and makes no scroll call after the first
\* empty page: the release follows it.  A short page that is not empty is
\* followed by one more scroll call.
ResumeUntilEmptyPage ==
  \A i \in DOMAIN trace :
    IsPage(trace[i]) =>
      IF trace[i].n = 0
      THEN /\ \A j \in DOMAIN trace : j > i => trace[j].op # "scroll"
           /\ IF i = Len(trace) THEN pc = "clear_scroll"
                                ELSE trace[i + 1].op = "clear_scroll"
      ELSE IF i = Len(trace) THEN pc = "scroll" ELSE trace[i + 1].op = "scroll"

\* C5 witness: a short page that is not empty, then a scroll call that
\* returns the empty page
ResumeUntilEmptyPageWitness ==
  \E i \in DOMAIN trace :
    /\ IsPage(trace[i])
    /\ trace[i].n > 0
    /\ trace[i].n < pageSize
    /\ i < Len(trace)
    /\ trace[i + 1].op = "scroll"
    /\ IsPage(trace[i + 1])
    /\ trace[i + 1].n = 0

\* C6  Rule-listing failure is non-fatal: a request of the rule listing that
\* raised does not abort the run.
RuleListingFailureNonFatal ==
  (\E i \in At("get_rules") : Raised(trace[i])) => pc # "aborted"

\* C7  Fetch failure is fatal with no partial processing: once the search
\* or a scroll call has raised, the run is aborted with a non-zero status
\* and analyze_signal and add_note are never called.
FetchFailureFatal ==
  (\E i \in At("search") \cup At("scroll") : Raised(trace[i])) =>
    /\ pc = "aborted"
    /\ exit = "nonzero"
    /\ At("analyze") = {}
    /\ At("add_note") = {}

\* C7 witness: a scroll call raised after two pages had been retrieved
FetchFailureFatalWitness ==
  /\ pc = "aborted"
  /\ Len(results) >= 2
  /\ Cardinality(At("scroll")) = 2
  /\ Raised(trace[Len(trace)])
  /\ trace[Len(trace)].op = "scroll"

\* position in signals of the alert with this id
Pos(id) == CHOOSE k \in DOMAIN signals : signals[k].id = id
\* order of the calls and reports within one iteration
Rank(op) == CASE op = "analyze" -> 1 [] op = "add_note" -> 2 [] OTHER -> 3

\* the calls and reports of the per-alert loop, in program order
AlertEntries == SelectSeq(trace, IsAlertEntry)

\* C8  Processing order: the signals processed are the ones get_signals
\* returned, and of any two calls or reports of the loop, the earlier one is
\* about the same or an earlier alert of that sequence; within one alert
\* the order is analyze_signal, add_note, report.  (Stated on neighbouring
\* entries, which gives it for every pair.)
ProcessingOrder ==
  LET entries == AlertEntries
  IN /\ Fetched => signals = results
     /\ \A a \in DOMAIN entries :
          /\ \E k \in DOMAIN signals : signals[k].id = entries[a].id
          /\ a > 1 =>
               /\ Pos(entries[a - 1].id) <= Pos(entries[a].id)
               /\ entries[a - 1].id = entries[a].id =>
                    Rank(entries[a - 1].op) < Rank(entries[a].op)

\* C8 witness: three alerts, not in the order of their ids, the first two
\* failed, add_note was called for the second and then for the third
ProcessingOrderWitness ==
  /\ pc = "done"
  /\ Len(signals) = 3
  /\ signals[1].id > signals[2].id
  /\ ~Analyzed(signals[1].id)
  /\ Analyzed(signals[2].id) /\ ~Annotated(signals[2].id)
  /\ Annotated(signals[3].id)

\* C9  Correlation integrity: the result of analyze_signal carries the id of
\* the alert passed to it, and every add_note call is keyed by the id of the
\* alert whose analysis, returned by the call just before it, the note holds.
CorrelationIntegrity ==
  /\ pc = "add_note" =>
       /\ trace[Len(trace)].op = "analyze"
       /\ analysis.signal_id = trace[Len(trace)].arg.id
       /\ analysis.analysis.request = trace[Len(trace)].arg.id
  /\ \A i \in At("add_note") :
       /\ i > 1
       /\ trace[i - 1].op = "analyze"
       /\ trace[i - 1].res = "ok"
       /\ trace[i - 1].arg.id = trace[i].id
       /\ trace[i].arg.signal_id = trace[i].id
       /\ trace[i].arg.analysis.request = trace[i].id

\* C9 witness: a note written for a later alert after an earlier alert failed
CorrelationIntegrityWitness ==
  \E i \in At("add_note"), j \in At("print_err") :
    /\ j < i
    /\ trace[i].res = "ok"
    /\ trace[i].id # trace[j].id

\* C10  Per-alert outcome accounting: every call of the loop that raised is
\* reported at once with the id of its alert and its error; every alert the
\* loop has passed has exactly one report; the report is a success exactly
\* when both analyze_signal and add_note returned; at the end successes and
\* failures add up to the number of alerts fetched.
OutcomeAccounting ==
  LET calls == At("analyze") \cup At("add_note")
      oks == At("print_ok")
      errs == At("print_err")
      Returned(op, id) == \E i \in calls :
                            trace[i].op = op /\ trace[i].id = id /\ trace[i].res = "ok"
  IN /\ \A i \in calls :
          Raised(trace[i]) =>
            /\ i < Len(trace)
            /\ trace[i + 1].op = "print_err"
            /\ trace[i + 1].id = trace[i].id
            /\ trace[i + 1].arg = trace[i].res
     /\ Fetched =>
          \A k \in DOMAIN signals :
            LET id == signals[k].id
            IN /\ Cardinality({i \in oks \cup errs : trace[i].id = id})
                    = IF k < idx THEN 1 ELSE 0
               /\ (\E i \in oks : trace[i].id = id)
                    <=> (Returned("analyze", id) /\ Returned("add_note", id))
     /\ pc = "done" => Cardinality(oks) + Cardinality(errs) = Len(signals)

\* C10 witness: the run is done; one alert was analysed but add_note failed
\* for it, and it is reported as a failure next to a success
OutcomeAccountingWitness ==
  /\ pc = "done"
  /\ \E i \in DOMAIN signals, j \in DOMAIN signals :
       /\ Analyzed(signals[i].id)
       /\ ~Annotated(signals[i].id)
       /\ AtId("print_err", signals[i].id) # {}
       /\ AtId("print_ok", signals[i].id) = {}
       /\ AtId("print_ok", signals[j].id) # {}

\* C11  Empty analysis response is a failure: an answer of the analysis
\* service without narrative never becomes the analysis main holds for
\* add_note, no note is written with it, and its alert is not reported as
\* processed.
EmptyAnalysisIsFailure ==
  /\ pc = "add_note" => analysis.analysis.content # EmptyContent
  /\ \A i \in At("add_note") : trace[i].arg.analysis.content # EmptyContent
  /\ \A i \in At("print_ok") :
       \A j \in AtId("add_note", trace[i].id) :
         trace[j].arg.analysis.content # EmptyContent

\* the field of a prompt is the sentinel 'N/A'
IsNA(x) == x.kind = "str" /\ x.v = "N/A"
\* the subtree of a document under the keys of path is not present, or is
\* present with a value that is no mapping
RECURSIVE Unusable(_, _)
Unusable(d, path) ==
  IF d.kind # "map" THEN TRUE
  ELSE IF path = << >> THEN FALSE
  ELSE IF Head(path) \notin DOMAIN d.v THEN TRUE
  ELSE Unusable(d.v[Head(path)], Tail(path))

\* C12  Prompt construction is total: _create_signal_prompt never raises;
\* the fields of a subtree that is missing or that is no mapping are 'N/A'
\* (the technique list: empty); for an empty source every field is.
PromptConstructionTotal ==
  (unit = "prompt" /\ prompt.state # "none") =>
    /\ prompt.state = "built"
    /\ Unusable(raw, <<"source", "process">>) => IsNA(prompt.fields[6])
    /\ Unusable(raw, <<"source", "process", "parent">>) => IsNA(prompt.fields[9])
    /\ Unusable(raw, <<"source", "kibana", "alert", "rule">>) => IsNA(prompt.fields[1])
    /\ Unusable(raw, <<"source", "kibana", "alert", "rule", "parameters">>) =>
         /\ IsNA(prompt.fields[2])
         /\ prompt.fields[15].kind = "list" /\ Len(prompt.fields[15].v) = 0
    /\ Unusable(raw, <<"source", "host">>) => IsNA(prompt.fields[13])
    /\ Unusable(raw, <<"source", "host", "os">>) => IsNA(prompt.fields[14])
    /\ Unusable(raw, <<"source", "user">>) => IsNA(prompt.fields[11])

\* C13  Credential validation precedes any network call: a connector
\* constructed with no API key and without both a username and a password is
\* in error, and no request has been sent.
CredentialValidation ==
  (/\ unit \in {"kibana", "elasticsearch"}
   /\ conn # "none"
   /\ ~Truthy(creds.api_key)
   /\ ~(Truthy(creds.username) /\ Truthy(creds.password))) =>
    /\ conn = "error"
    /\ trace = << >>

\* C13 witness: the Elasticsearch connector was given a username only and
\* its construction failed
CredentialValidationWitness ==
  /\ unit = "elasticsearch"
  /\ creds.api_key = None
  /\ creds.username = "secret"
  /\ creds.password = None
  /\ conn = "error"

\* C14  Single-shot, exactly-once consumption: analyze_signal and add_note
\* are each called at most once per alert, and only for fetched alerts;
\* add_note is called for an alert only after analyze_signal returned for
\* it; when main returns, every analysis that was returned has been handed
\* to exactly one add_note call.
SingleShot ==
  LET analyzes == At("analyze")
      notes == At("add_note")
      Of(entries, id) == {i \in entries : trace[i].id = id}
      returned == {trace[i].id : i \in {j \in analyzes : trace[j].res = "ok"}}
  IN /\ \A id \in AlertIds :
          /\ Cardinality(Of(analyzes, id)) <= 1
          /\ Cardinality(Of(notes, id)) <= 1
          /\ Of(analyzes, id) # {} => \E k \in DOMAIN signals : signals[k].id = id
     /\ \A i \in notes :
          \E j \in Of(analyzes, trace[i].id) : j < i /\ trace[j].res = "ok"
     /\ pc = "done" =>
          \A id \in AlertIds :
            Cardinality(Of(notes, id)) = IF id \in returned THEN 1 ELSE 0

\* C14 witness: the run is done; analyze_signal raised for the first of
\* three alerts, which got no add_note call, the others got one each
SingleShotWitness ==
  /\ pc = "done"
  /\ Len(signals) = 3
  /\ ~Analyzed(signals[1].id)
  /\ AtId("add_note", signals[1].id) = {}
  /\ Cardinality(At("analyze")) = 3
  /\ Cardinality(At("add_note")) = 2

\* ids of the alerts add_note returned for
AnnotatedIds == {id \in AlertIds : Annotated(id)}

ReleaseOrdering ==
  /\ \A i \in At("clear_scroll") :
       /\ i > 1
       /\ IsPage(trace[i - 1])
       /\ trace[i - 1].n = 0
       /\ \A j \in DOMAIN trace : j > i => trace[j].op \notin {"search", "scroll"}
  /\ Fetched =>
       /\ Cardinality(At("clear_scroll")) = 1
       /\ \A i \in At("clear_scroll") :
            /\ trace[i].res = "ok"
            /\ i < Len(trace)
            /\ trace[i + 1].op = "print_signals"
            /\ ~ctxOpen

\* C16 witness: nothing matched; the release followed the search with no
\* scroll call in between, and get_signals has returned
ReleaseOrderingWitness ==
  /\ Fetched
  /\ Len(store) = 0
  /\ At("scroll") = {}
  /\ Cardinality(At("clear_scroll")) = 1

\* get_all_detection_rules has returned to main
RulesListed == At("print_rules") # {}

\* C17  Rule-listing pagination: the requests ask for the pages 1, 2, 3, ...
\* with per_page rules each; a page of per_page rules is followed by the
\* request for the next page and a shorter page by none; when the listing
\* has returned it made floor(R/per_page) + 1 requests and returns the R
\* rules of the endpoint, each once, in order.
RuleListingPagination ==
  /\ \A i \in At("get_rules") :
       /\ trace[i].id = Cardinality({j \in At("get_rules") : j <= i})
       /\ trace[i].arg = per_page
       /\ trace[i].res = "ok" =>
            IF trace[i].n < per_page
            THEN \A j \in At("get_rules") : j <= i
            ELSE IF i = Len(trace) THEN pc = "get_rules"
                                   ELSE trace[i + 1].op = "get_rules"
  /\ RulesListed =>
       /\ Cardinality(At("get_rules")) = (ruleCount \div per_page) + 1
       /\ all_rules = [k \in 1..ruleCount |-> k]
       /\ \A i \in At("print_rules") : trace[i].n = ruleCount

\* C17 witness: the endpoint holds exactly one full page; the listing
\* returned after a second request that brought an empty page
RuleListingPaginationWitness ==
  /\ RulesListed
  /\ ruleCount = per_page
  /\ Cardinality(At("get_rules")) = 2
  /\ \E i \in At("get_rules") : trace[i].id = 2 /\ trace[i].n = 0

\* main has returned or an error has left it
Halted == pc \in {"done", "aborted"}

\* C18  Run termination: with every call returning or raising, every run
\* of main eventually returns or is aborted, and when it returns the loop
\* has made exactly one iteration for each fetched alert.
RunTerminates ==
  /\ <>Halted
  /\ [](pc = "done" =>
          /\ idx = Len(signals) + 1
          /\ Cardinality(At("analyze")) = Len(signals)
          /\ Cardinality(At("print_ok")) + Cardinality(At("print_err")) = Len(signals))

\* C18 witness: main has returned after three iterations over three alerts
\* fetched with two scroll calls
RunTerminatesWitness ==
  /\ pc = "done"
  /\ Len(signals) = 3
  /\ idx = 4
  /\ Cardinality(At("scroll")) = 2
  /\ Cardinality(At("get_rules")) = 2

\* C19  Continuation token is fixed for the whole retrieval: every scroll
\* call and the clear_scroll call pass the scroll id the initial search
\* returned, also after the store has returned another one with the response
\* to a scroll call.
FixedScrollId ==
  /\ \A i \in At("scroll") \cup At("clear_scroll") : trace[i].arg = ScrollId
  /\ (unit = "run" /\ \E i \in At("search") : trace[i].res = "ok") => scroll_id = ScrollId

\* C19 witness: after two scroll responses, each carrying the new scroll id,
\* the release was called with the first one
FixedScrollIdWitness ==
  /\ RenewedScrollId # ScrollId
  /\ Cardinality({i \in At("scroll") : trace[i].res = "ok"}) >= 2
  /\ \E i \in At("clear_scroll") : trace[i].arg = ScrollId /\ trace[i].res = "ok"

====
